---- MODULE Spec2Model ----
(***************************************************************************)
(* Model of the clips-ai video processing pipeline:                        *)
(*   core/views.py            process_video (submission) and its           *)
(*                            process_in_background worker                  *)
(*   core/utils/processor.py  VideoProcessor.process_video                 *)
(*   core/utils/yt_downloader.py, ffmpeg_processor.py  file effects        *)
(*   core/utils/gemini_analyzer.py  _validate_viral_moments                *)
(*                                                                         *)
(* Spec         the job store, the workers and the pipeline of each job    *)
(* SpecAnalyzer the analyzer's pure functions applied to bounded inputs    *)
(*                                                                         *)
(* Scores are integers in hundredths (0.95 is 95); timestamps and          *)
(* durations are whole seconds.                                            *)
(***************************************************************************)
EXTENDS Integers, Sequences, FiniteSets, TLC

\* ------------------------------------------------------------------ bounds
\* Job ids the store hands out (one worker thread per job).
JobIds == {1, 2}
\* Source URLs a submission may name; "" is a missing url.
UrlNames == <<"u1", "u2">>
Urls == {UrlNames[i] : i \in 1..Len(UrlNames)}
\* Longest list of moments the analyzer returns in the pipeline model.
MaxMoments == 2
\* clip_duration values a submission may carry (4 and 61 are out of range).
DurationInputs == {4, 30, 61}

\* Longest list of raw moments handed to _validate_viral_moments.
MaxRawMoments == 2
\* Raw values the language model may answer with, and video durations.
StartInputs == {-10, 0, 50, 100}
ScoreInputs == {-20, 82, 150}
TotalDurations == {0, 20, 30, 120}
\* Length of the long lists of parsed moments handed to extract_viral_moments.
MaxParsed == 6
\* Video durations and target clip durations of the fallback; they are even,
\* so that total_duration / 2 - clip_duration / 2 is a whole number.
FallbackDurations == {0, 10, 20, 120}
ClipDurations == {6, 10, 30, 60}
\* Scores convert_score_to_grade is applied to, in hundredths.
GradeScores == 0..100
\* Stored rows the results page is rendered on: up to MaxRows scores.
MaxRows == 2
RowScores == {56, 79, 80, 89, 90, 97}

\* ------------------------------------------------------- program constants
MinClipDuration == 5
MaxClipDuration == 60
\* _validate_viral_moments: the clip window, the defaults of start, end and
\* score, and the cap on the returned list.
ValidationWindow == 30
DefaultStart == 0
DefaultEnd == 30
DefaultScore == 70
MaxReturned == 5
\* _create_fallback_moments: the offset from either end, the first score and
\* the decrement of the score.
FallbackOffset == 10
FallbackTopScore == 70
FallbackScoreStep == 10
TopClipsThreshold == 80

NoGrade == "None"

VARIABLES
    db,              \* VideoProcessing rows: id -> [exists, youtube_url, clip_duration, status, error_message]
    clipRows,        \* ViralClip rows of each job, in creation order
    lastResp,        \* the last submission's HTTP answer
    mem,             \* each worker's in-memory video_processing object
    wpc,             \* position of each process_in_background thread
    wstep,           \* its local `step`
    saved_clips,     \* its local `saved_clips`
    save_i,          \* index of its clip-saving loop
    use_gcs,         \* whether the job's downloader/clip processor got a GCS client
    ppc,             \* position inside VideoProcessor.process_video
    pstep,           \* process_video's local `step`
    video_file_path, \* process_video's local `video_file_path`
    viral_moments,   \* process_video's local `viral_moments`
    clip_i,          \* index of the clip-creation loop
    clips_data,      \* process_video's local `clips_data`
    clip_files,      \* process_video's local `clip_files`
    result,          \* the dictionary process_video returned
    calls,           \* per job, the capability calls process_video made, in order
    srcFile,         \* url -> the local downloads/<title>_<id>.mp4 exists
    srcBlob,         \* url -> the blob downloads/<title>_<id>.mp4 exists
    clipStore,       \* output name -> job whose extraction it holds (0: absent)
    an               \* state of the analyzer harness (SpecAnalyzer)

jobVars == <<db, clipRows, lastResp, mem, wpc, wstep, saved_clips, save_i, use_gcs>>
runVars == <<ppc, pstep, video_file_path, viral_moments, clip_i, clips_data, clip_files, result, calls>>
fsVars == <<srcFile, srcBlob, clipStore>>
vars == <<jobVars, runVars, fsVars, an>>

\* ------------------------------------------------------------------ values
NoRow == [exists |-> FALSE, youtube_url |-> "", clip_duration |-> 0,
          status |-> "none", error_message |-> [kind |-> "null"]]
NoPath == [kind |-> "None", url |-> ""]
NoResult == [kind |-> "none"]
NoResp == [status |-> 0, success |-> FALSE, processing_id |-> 0]
AnIdle == [pc |-> "off"]
NoName == <<0, "">>

\* The grades a moment may carry: strings, or a JSON null (NoGrade).
MomentPool == {[virality_score |-> 95, grade |-> "A"],
               [virality_score |-> 82, grade |-> NoGrade]}

\* Lists extract_viral_moments can return: sorted by score, best first.
RECURSIVE SortedDesc(_)
SortedDesc(s) ==
    IF Len(s) <= 1 THEN TRUE
    ELSE s[1].virality_score >= s[2].virality_score /\ SortedDesc(Tail(s))

MomentLists ==
    {s \in UNION {[1..n -> MomentPool] : n \in 0..MaxMoments} : SortedDesc(s)}

\* Output names process_video can ask for: viral_clip_<rank>_<grade>.mp4.
ClipNames == (1..MaxMoments) \X {m.grade : m \in MomentPool}

\* int(score * 100) on the float score: the product of 0.29, 0.57 and 0.58
\* with 100 falls just below the integer and is truncated one lower.
PersistedScore(s) == IF s \in {29, 57, 58} THEN s - 1 ELSE s

\* ------------------------------------------------------------------- Init
InitJobs ==
    /\ db = [j \in JobIds |-> NoRow]
    /\ clipRows = [j \in JobIds |-> <<>>]
    /\ lastResp = NoResp
    /\ mem = [j \in JobIds |-> [status |-> "none", error_message |-> [kind |-> "null"]]]
    /\ wpc = [j \in JobIds |-> "none"]
    /\ wstep = [j \in JobIds |-> "initialization"]
    /\ saved_clips = [j \in JobIds |-> 0]
    /\ save_i = [j \in JobIds |-> 0]
    /\ use_gcs = [j \in JobIds |-> FALSE]
    /\ ppc = [j \in JobIds |-> "idle"]
    /\ pstep = [j \in JobIds |-> "initialization"]
    /\ video_file_path = [j \in JobIds |-> NoPath]
    /\ viral_moments = [j \in JobIds |-> <<>>]
    /\ clip_i = [j \in JobIds |-> 0]
    /\ clips_data = [j \in JobIds |-> <<>>]
    /\ clip_files = [j \in JobIds |-> <<>>]
    /\ result = [j \in JobIds |-> NoResult]
    /\ calls = [j \in JobIds |-> <<>>]
    /\ srcFile = [u \in Urls |-> FALSE]
    /\ srcBlob = [u \in Urls |-> FALSE]
    /\ clipStore = [n \in ClipNames |-> 0]

Init == InitJobs /\ an = AnIdle

\* --------------------------------------------------------------- helpers
Append1(f, j, x) == [f EXCEPT ![j] = Append(@, x)]
Called(j, c) == Append1(calls, j, c)

\* The dictionary process_video returns from its except clause (lines 274-291):
\* the message is "Processing failed at step '<step>': <cause>".
Failure(step, cause) ==
    [kind |-> "failure", step_failed |-> step,
     error |-> [step |-> step, cause |-> cause]]

FreeIds == {j \in JobIds : ~db[j].exists}
NextId == CHOOSE j \in FreeIds : \A k \in FreeIds : j <= k

\* The locals of a process_video call, gone once the worker has its result.
DropFrame(j) ==
    /\ pstep' = [pstep EXCEPT ![j] = "initialization"]
    /\ video_file_path' = [video_file_path EXCEPT ![j] = NoPath]
    /\ viral_moments' = [viral_moments EXCEPT ![j] = <<>>]
    /\ clip_i' = [clip_i EXCEPT ![j] = 0]
    /\ clips_data' = [clips_data EXCEPT ![j] = <<>>]
    /\ clip_files' = [clip_files EXCEPT ![j] = <<>>]
    /\ calls' = [calls EXCEPT ![j] = <<>>]
    /\ use_gcs' = [use_gcs EXCEPT ![j] = FALSE]

\* The locals of a worker thread, gone when the thread ends.
EndThread(j) ==
    /\ wpc' = [wpc EXCEPT ![j] = "done"]
    /\ wstep' = [wstep EXCEPT ![j] = "initialization"]
    /\ saved_clips' = [saved_clips EXCEPT ![j] = 0]
    /\ save_i' = [save_i EXCEPT ![j] = 0]
    /\ result' = [result EXCEPT ![j] = NoResult]

\* ------------------------------------------- views.process_video (submit)
\* A request is answered 400 when the url is missing or clip_duration is out
\* of range (lines 70-84), 500 when a key or the database is missing (lines
\* 86-136), and otherwise creates the row with status pending and starts its
\* worker thread (lines 119-147, 270-286).  Requests are followed until the
\* store has handed out every id of JobIds.
\* Variant of Valid: the upper end of the range is not checked.
Valid_NoUpperBound(url, dur) ==
    url # "" /\ dur >= MinClipDuration

Valid(url, dur) ==
    url # "" /\ dur >= MinClipDuration /\ dur <= MaxClipDuration

\* Urls are interchangeable: they are named in the order of their first use.
UsedUrls == {db[j].youtube_url : j \in JobIds \ FreeIds}
SubmittableUrls ==
    UsedUrls \cup (IF Cardinality(UsedUrls) < Len(UrlNames)
                   THEN {UrlNames[Cardinality(UsedUrls) + 1]}
                   ELSE {})

SubmitRejected ==
    /\ FreeIds # {}
    /\ \E url \in Urls \cup {""}, dur \in DurationInputs : ~Valid(url, dur)
    /\ lastResp' = [status |-> 400, success |-> FALSE, processing_id |-> 0]
    /\ UNCHANGED <<db, clipRows, mem, wpc, wstep, saved_clips, save_i, use_gcs>>
    /\ UNCHANGED <<runVars, fsVars, an>>

SubmitServerError ==
    /\ FreeIds # {}
    /\ \E url \in Urls, dur \in DurationInputs : Valid(url, dur)
    /\ lastResp' = [status |-> 500, success |-> FALSE, processing_id |-> 0]
    /\ UNCHANGED <<db, clipRows, mem, wpc, wstep, saved_clips, save_i, use_gcs>>
    /\ UNCHANGED <<runVars, fsVars, an>>

SubmitAccepted(url, dur) ==
    /\ Valid(url, dur)
    /\ FreeIds # {}
    /\ LET j == NextId IN
        /\ db' = [db EXCEPT ![j] = [exists |-> TRUE, youtube_url |-> url,
                                    clip_duration |-> dur, status |-> "pending",
                                    error_message |-> [kind |-> "null"]]]
        /\ mem' = [mem EXCEPT ![j] = [status |-> "pending",
                                      error_message |-> [kind |-> "null"]]]
        /\ wpc' = [wpc EXCEPT ![j] = "start"]
        /\ lastResp' = [status |-> 200, success |-> TRUE, processing_id |-> j]
    /\ UNCHANGED <<clipRows, wstep, saved_clips, save_i, use_gcs>>
    /\ UNCHANGED <<runVars, fsVars, an>>

Submit ==
    \/ SubmitRejected
    \/ SubmitServerError
    \/ \E url \in SubmittableUrls, dur \in DurationInputs : SubmitAccepted(url, dur)

\* ------------------------------------- views.process_in_background (worker)
\* Variant of WStatusUpdate: the row saved is the newest row of the table
\* instead of the row the thread was started for.
WStatusUpdate_LatestJob(j) ==
    /\ wpc[j] = "start"
    /\ wstep' = [wstep EXCEPT ![j] = "status_update"]
    /\ mem' = [mem EXCEPT ![j].status = "processing"]
    /\ \E saveOk \in BOOLEAN :
        IF saveOk
        THEN /\ LET latest == CHOOSE k \in JobIds \ FreeIds :
                                  \A i \in JobIds \ FreeIds : i <= k
                IN db' = [db EXCEPT ![latest].status = "processing"]
             /\ wpc' = [wpc EXCEPT ![j] = "init"]
        ELSE /\ db' = db
             /\ wpc' = [wpc EXCEPT ![j] = "except"]
    /\ UNCHANGED <<clipRows, lastResp, saved_clips, save_i, use_gcs>>
    /\ UNCHANGED <<runVars, fsVars, an>>

\* step "status_update" (lines 144-148): status = 'processing'; save().
WStatusUpdate(j) ==
    /\ wpc[j] = "start"
    /\ wstep' = [wstep EXCEPT ![j] = "status_update"]
    /\ mem' = [mem EXCEPT ![j].status = "processing"]
    /\ \E saveOk \in BOOLEAN :
        IF saveOk
        THEN /\ db' = [db EXCEPT ![j].status = "processing"]
             /\ wpc' = [wpc EXCEPT ![j] = "init"]
        ELSE /\ db' = db
             /\ wpc' = [wpc EXCEPT ![j] = "except"]
    /\ UNCHANGED <<clipRows, lastResp, saved_clips, save_i, use_gcs>>
    /\ UNCHANGED <<runVars, fsVars, an>>

\* steps "processor_init", "apify_test", "gemini_test" (lines 150-184): each
\* may raise.
WInitFails(j) ==
    /\ wpc[j] = "init"
    /\ \E s \in {"processor_init", "apify_test", "gemini_test"} :
        wstep' = [wstep EXCEPT ![j] = s]
    /\ wpc' = [wpc EXCEPT ![j] = "except"]
    /\ UNCHANGED <<db, clipRows, lastResp, mem, saved_clips, save_i, use_gcs>>
    /\ UNCHANGED <<runVars, fsVars, an>>

\* step "video_processing" (lines 186-191): process_video is entered; the
\* processor's constructors decided whether a GCS client is available.
WStartProcessing(j) ==
    /\ wpc[j] = "init"
    /\ wstep' = [wstep EXCEPT ![j] = "video_processing"]
    /\ wpc' = [wpc EXCEPT ![j] = "run"]
    /\ \E g \in BOOLEAN : use_gcs' = [use_gcs EXCEPT ![j] = g]
    /\ ppc' = [ppc EXCEPT ![j] = "ffmpeg_check"]
    /\ UNCHANGED <<db, clipRows, lastResp, mem, saved_clips, save_i>>
    /\ UNCHANGED <<pstep, video_file_path, viral_moments, clip_i, clips_data, clip_files, result, calls>>
    /\ UNCHANGED <<fsVars, an>>

\* ------------------------------------------- VideoProcessor.process_video
\* A raise inside the try block: the except clause builds the failure
\* dictionary from the current `step` (lines 274-291), then the finally
\* clause runs.
Raise(j, cause) ==
    /\ result' = [result EXCEPT ![j] = Failure(pstep'[j], cause)]
    /\ ppc' = [ppc EXCEPT ![j] = "finally"]

\* Variant of PFfmpegCheck: the transcript is fetched before the encoder is
\* probed.
PFfmpegCheck_AfterFetch(j) ==
    /\ ppc[j] = "ffmpeg_check"
    /\ pstep' = [pstep EXCEPT ![j] = "ffmpeg_check"]
    /\ calls' = [calls EXCEPT ![j] = @ \o <<"fetch_transcript", "is_ffmpeg_available">>]
    /\ \E available \in BOOLEAN :
        IF available
        THEN /\ ppc' = [ppc EXCEPT ![j] = "viral_analysis"]
             /\ result' = result
        ELSE Raise(j, "FFmpeg is not installed")
    /\ UNCHANGED <<video_file_path, viral_moments, clip_i, clips_data, clip_files>>
    /\ UNCHANGED <<jobVars, fsVars, an>>

\* Step 1 (lines 71-78): the encoder probe; unavailable raises.
PFfmpegCheck(j) ==
    /\ ppc[j] = "ffmpeg_check"
    /\ pstep' = [pstep EXCEPT ![j] = "ffmpeg_check"]
    /\ calls' = Called(j, "is_ffmpeg_available")
    /\ \E available \in BOOLEAN :
        IF available
        THEN /\ ppc' = [ppc EXCEPT ![j] = "transcript_fetch"]
             /\ result' = result
        ELSE Raise(j, "FFmpeg is not installed")
    /\ UNCHANGED <<video_file_path, viral_moments, clip_i, clips_data, clip_files>>
    /\ UNCHANGED <<jobVars, fsVars, an>>

\* Variant of PTranscriptFetch: with a transcript in hand the download is
\* started at once, before the analysis.
PTranscriptFetch_ThenDownload(j) ==
    /\ ppc[j] = "transcript_fetch"
    /\ pstep' = [pstep EXCEPT ![j] = "transcript_fetch"]
    /\ calls' = Called(j, "fetch_transcript")
    /\ \E outcome \in {"raise", "empty", "no_segments", "ok"} :
        CASE outcome = "raise" -> Raise(j, "Transcript fetch failed")
          [] outcome = "empty" -> Raise(j, "Empty transcript data received")
          [] outcome = "no_segments" -> Raise(j, "No transcript segments found")
          [] outcome = "ok" -> /\ ppc' = [ppc EXCEPT ![j] = "video_download"]
                               /\ result' = result
    /\ UNCHANGED <<video_file_path, viral_moments, clip_i, clips_data, clip_files>>
    /\ UNCHANGED <<jobVars, fsVars, an>>

\* Step 2 (lines 80-110): fetch_transcript raises, returns an empty
\* dictionary, returns no segments, or returns a transcript.
PTranscriptFetch(j) ==
    /\ ppc[j] = "transcript_fetch"
    /\ pstep' = [pstep EXCEPT ![j] = "transcript_fetch"]
    /\ calls' = Called(j, "fetch_transcript")
    /\ \E outcome \in {"raise", "empty", "no_segments", "ok"} :
        CASE outcome = "raise" -> Raise(j, "Transcript fetch failed")
          [] outcome = "empty" -> Raise(j, "Empty transcript data received")
          [] outcome = "no_segments" -> Raise(j, "No transcript segments found")
          [] outcome = "ok" -> /\ ppc' = [ppc EXCEPT ![j] = "viral_analysis"]
                               /\ result' = result
    /\ UNCHANGED <<video_file_path, viral_moments, clip_i, clips_data, clip_files>>
    /\ UNCHANGED <<jobVars, fsVars, an>>

\* Variant of PViralAnalysis: the assignment step = "viral_analysis" is
\* missing, so the step of the previous stage is still current.
PViralAnalysis_KeepsStep(j) ==
    /\ ppc[j] = "viral_analysis"
    /\ pstep' = pstep
    /\ calls' = Called(j, "extract_viral_moments")
    /\ \/ /\ Raise(j, "Gemini AI analysis failed")
          /\ viral_moments' = viral_moments
       \/ \E ms \in MomentLists :
            /\ viral_moments' = [viral_moments EXCEPT ![j] = ms]
            /\ IF ms = <<>>
               THEN Raise(j, "No viral moments found after analysis")
               ELSE /\ ppc' = [ppc EXCEPT ![j] = "video_download"]
                    /\ result' = result
    /\ UNCHANGED <<video_file_path, clip_i, clips_data, clip_files>>
    /\ UNCHANGED <<jobVars, fsVars, an>>

\* Step 3 (lines 117-135): extract_viral_moments raises or returns a list;
\* an empty list raises.
PViralAnalysis(j) ==
    /\ ppc[j] = "viral_analysis"
    /\ pstep' = [pstep EXCEPT ![j] = "viral_analysis"]
    /\ calls' = Called(j, "extract_viral_moments")
    /\ \/ /\ Raise(j, "Gemini AI analysis failed")
          /\ viral_moments' = viral_moments
       \/ \E ms \in MomentLists :
            /\ viral_moments' = [viral_moments EXCEPT ![j] = ms]
            /\ IF ms = <<>>
               THEN Raise(j, "No viral moments found after analysis")
               ELSE /\ ppc' = [ppc EXCEPT ![j] = "video_download"]
                    /\ result' = result
    /\ UNCHANGED <<video_file_path, clip_i, clips_data, clip_files>>
    /\ UNCHANGED <<jobVars, fsVars, an>>

\* YouTubeDownloader.download_video, as one call.  It raises before any file
\* is written (get_video_info, line 43), or after every format failed, when
\* it removes whatever is at the output path (lines 209-216); or it leaves
\* the file at downloads/<title>_<id>.mp4 and returns that path (line 138),
\* or the blob URL after an upload, which removes the local file (lines
\* 122-131).
DownloadRaisesEarly(j) ==
    /\ UNCHANGED fsVars
    /\ video_file_path' = video_file_path
    /\ Raise(j, "Video download failed")

DownloadAllFormatsFail(j) ==
    /\ srcFile' = [srcFile EXCEPT ![db[j].youtube_url] = FALSE]
    /\ UNCHANGED <<srcBlob, clipStore>>
    /\ video_file_path' = video_file_path
    /\ Raise(j, "Video download failed")

DownloadReturnsLocal(j) ==
    /\ srcFile' = [srcFile EXCEPT ![db[j].youtube_url] = TRUE]
    /\ UNCHANGED <<srcBlob, clipStore>>
    /\ video_file_path' = [video_file_path EXCEPT
                             ![j] = [kind |-> "local", url |-> db[j].youtube_url]]
    /\ ppc' = [ppc EXCEPT ![j] = "check_file"]
    /\ result' = result

DownloadReturnsBlob(j) ==
    /\ use_gcs[j]
    /\ srcFile' = [srcFile EXCEPT ![db[j].youtube_url] = FALSE]
    /\ srcBlob' = [srcBlob EXCEPT ![db[j].youtube_url] = TRUE]
    /\ UNCHANGED clipStore
    /\ video_file_path' = [video_file_path EXCEPT
                             ![j] = [kind |-> "gcs", url |-> db[j].youtube_url]]
    /\ ppc' = [ppc EXCEPT ![j] = "check_file"]
    /\ result' = result

download_video(j) ==
    \/ DownloadRaisesEarly(j)
    \/ DownloadAllFormatsFail(j)
    \/ DownloadReturnsLocal(j)
    \/ DownloadReturnsBlob(j)

\* Step 4 (lines 144-154): the download call.
PVideoDownload(j) ==
    /\ ppc[j] = "video_download"
    /\ pstep' = [pstep EXCEPT ![j] = "video_download"]
    /\ calls' = Called(j, "download_video")
    /\ download_video(j)
    /\ UNCHANGED <<viral_moments, clip_i, clips_data, clip_files>>
    /\ UNCHANGED <<jobVars, an>>

\* Step 4 (lines 156-171): a blob URL is trusted, a local path must exist.
\* Step 5 then starts with an empty clips_data (lines 173-177).
PCheckFile(j) ==
    /\ ppc[j] = "check_file"
    /\ IF \/ video_file_path[j].kind = "gcs"
          \/ srcFile[video_file_path[j].url]
       THEN /\ ppc' = [ppc EXCEPT ![j] = "clip_creation"]
            /\ pstep' = [pstep EXCEPT ![j] = "clip_creation"]
            /\ clips_data' = [clips_data EXCEPT ![j] = <<>>]
            /\ clip_i' = [clip_i EXCEPT ![j] = 1]
            /\ result' = result
       ELSE /\ pstep' = pstep
            /\ Raise(j, "Downloaded video file not found")
            /\ UNCHANGED <<clips_data, clip_i>>
    /\ UNCHANGED <<video_file_path, viral_moments, clip_files, calls>>
    /\ UNCHANGED <<jobVars, fsVars, an>>

\* ------------------------------------------- FFmpegClipProcessor.create_clip
\* create_clip never raises: every exception inside it is turned into
\* {'success': False, 'error': ...} (lines 186-199), which has no output_path.
ClipFailed == [success |-> FALSE, output_path |-> NoName]
ClipCreated(name) == [success |-> TRUE, output_path |-> name]

\* The input cannot be read: a blob URL without a GCS client or whose
\* download fails (lines 70-93), or a local file ffprobe cannot open (lines
\* 106-108).
CreateClipNoInput(j, name, res) ==
    /\ \/ video_file_path[j].kind = "gcs"
       \/ ~srcFile[video_file_path[j].url]
    /\ res = ClipFailed
    /\ UNCHANGED fsVars

\* The input is there (a blob is first copied to downloads/<basename>) and the
\* probe or the encoder fails, times out or leaves an empty file: the copy of
\* a blob stays behind (the removal at lines 165-171 is not reached).
CreateClipEncodeFails(j, name, res) ==
    /\ IF video_file_path[j].kind = "gcs"
       THEN /\ use_gcs[j] /\ srcBlob[video_file_path[j].url]
            /\ srcFile' = [srcFile EXCEPT ![video_file_path[j].url] = TRUE]
       ELSE /\ srcFile[video_file_path[j].url]
            /\ srcFile' = srcFile
    /\ res = ClipFailed
    /\ UNCHANGED <<srcBlob, clipStore>>

\* The encoder writes clips/<output_filename> (ffmpeg -y overwrites), and the
\* copy of a blob input is removed (lines 165-171).
CreateClipSucceeds(j, name, res) ==
    /\ IF video_file_path[j].kind = "gcs"
       THEN /\ use_gcs[j] /\ srcBlob[video_file_path[j].url]
            /\ srcFile' = [srcFile EXCEPT ![video_file_path[j].url] = FALSE]
       ELSE /\ srcFile[video_file_path[j].url]
            /\ srcFile' = srcFile
    /\ clipStore' = [clipStore EXCEPT ![name] = j]
    /\ res = ClipCreated(name)
    /\ UNCHANGED srcBlob

create_clip(j, name, res) ==
    \/ CreateClipNoInput(j, name, res)
    \/ CreateClipEncodeFails(j, name, res)
    \/ CreateClipSucceeds(j, name, res)

\* The dictionary appended to clips_data (lines 204-221).
ClipData(i, moment, clip_result) ==
    [rank |-> i, virality_score |-> moment.virality_score,
     grade |-> moment.grade, output_path |-> clip_result.output_path]

\* Step 5, one iteration whose body raises (lines 179-192, 225-228):
\* grade.replace on a grade that is not a string raises before create_clip is
\* called, and the except clause goes on to the next moment.
PClipSkipped(j) ==
    /\ ppc[j] = "clip_creation"
    /\ clip_i[j] <= Len(viral_moments[j])
    /\ viral_moments[j][clip_i[j]].grade = NoGrade
    /\ clip_i' = [clip_i EXCEPT ![j] = @ + 1]
    /\ UNCHANGED <<ppc, pstep, video_file_path, viral_moments, clips_data, clip_files, result, calls>>
    /\ UNCHANGED <<jobVars, fsVars, an>>

\* Step 5, one iteration (lines 179-223): create_clip is called and, whatever
\* it returns, a clip_data entry is appended; the output path is recorded in
\* clip_files only when there is one.
PClip(j) ==
    /\ ppc[j] = "clip_creation"
    /\ clip_i[j] <= Len(viral_moments[j])
    /\ LET i == clip_i[j]
           moment == viral_moments[j][i]
       IN /\ moment.grade # NoGrade
          /\ calls' = Called(j, "create_clip")
          /\ \E res \in {ClipFailed, ClipCreated(<<i, moment.grade>>)} :
                /\ create_clip(j, <<i, moment.grade>>, res)
                /\ clip_files' = IF res.output_path # NoName
                                 THEN Append1(clip_files, j, res.output_path)
                                 ELSE clip_files
                /\ clips_data' = Append1(clips_data, j, ClipData(i, moment, res))
    /\ clip_i' = [clip_i EXCEPT ![j] = @ + 1]
    /\ UNCHANGED <<ppc, pstep, video_file_path, viral_moments, result>>
    /\ UNCHANGED <<jobVars, an>>

\* The dictionary returned on success (lines 240-272).
Success(clips, attempted) ==
    [kind |-> "success", clips |-> clips, total_clips |-> Len(clips),
     video_info |-> [title |-> "title"],
     processing_stats |-> [clips_created |-> Len(clips),
                           clips_attempted |-> attempted,
                           top_grade |-> clips[1].grade]]

\* After the loop (lines 230-272): an empty clips_data raises, otherwise the
\* success dictionary is returned.
PAssemble(j) ==
    /\ ppc[j] = "clip_creation"
    /\ clip_i[j] > Len(viral_moments[j])
    /\ pstep' = pstep
    /\ IF clips_data[j] = <<>>
       THEN Raise(j, "No clips were successfully created")
       ELSE /\ result' = [result EXCEPT
                            ![j] = Success(clips_data[j], Len(viral_moments[j]))]
            /\ ppc' = [ppc EXCEPT ![j] = "finally"]
    /\ UNCHANGED <<video_file_path, viral_moments, clip_i, clips_data, clip_files, calls>>
    /\ UNCHANGED <<jobVars, fsVars, an>>

\* Variant of cleanup_file: the clips rendered by the job are removed along
\* with the source.
cleanup_file_WithClips(j, path) ==
    /\ srcFile' = IF path.kind = "local"
                  THEN [srcFile EXCEPT ![path.url] = FALSE]
                  ELSE srcFile
    /\ srcBlob' = IF use_gcs[j]
                  THEN [srcBlob EXCEPT ![path.url] = FALSE]
                  ELSE srcBlob
    /\ clipStore' = [n \in ClipNames |-> IF clipStore[n] = j THEN 0 ELSE clipStore[n]]

\* YouTubeDownloader.cleanup_file (lines 260-291): removes the local file at
\* the path when there is one (a blob URL names no local file) and, with a
\* GCS client, deletes the blob downloads/<basename>.
cleanup_file(j, path) ==
    /\ srcFile' = IF path.kind = "local"
                  THEN [srcFile EXCEPT ![path.url] = FALSE]
                  ELSE srcFile
    /\ srcBlob' = IF use_gcs[j]
                  THEN [srcBlob EXCEPT ![path.url] = FALSE]
                  ELSE srcBlob
    /\ clipStore' = clipStore

\* Variant of MustCleanUp: the finally clause does not look whether the
\* local file is still there.
MustCleanUp_NoExistsCheck(j) ==
    video_file_path[j] # NoPath

\* The guard of the finally clause (lines 295-308): a path was assigned, and
\* it is a blob URL or a local file that exists.
MustCleanUp(j) ==
    /\ video_file_path[j] # NoPath
    /\ \/ video_file_path[j].kind = "gcs"
       \/ srcFile[video_file_path[j].url]

\* The finally clause (lines 293-313), then the return to the worker.
\* Rendered clips are kept.
PFinally(j) ==
    /\ ppc[j] = "finally"
    /\ IF MustCleanUp(j)
       THEN /\ calls' = Called(j, "cleanup_file")
            /\ cleanup_file(j, video_file_path[j])
       ELSE /\ calls' = calls
            /\ UNCHANGED <<srcFile, srcBlob, clipStore>>
    /\ ppc' = [ppc EXCEPT ![j] = "idle"]
    /\ wpc' = [wpc EXCEPT ![j] = "returned"]
    /\ UNCHANGED <<pstep, video_file_path, viral_moments, clip_i, clips_data, clip_files, result>>
    /\ UNCHANGED <<db, clipRows, lastResp, mem, wstep, saved_clips, save_i, use_gcs>>
    /\ an' = an

\* ------------------------------- process_in_background, after process_video
\* clip_data.get('clip_path'): clips_data entries carry 'output_path' and no
\* 'clip_path' key (processor.py lines 204-220), so the lookup yields None.
ClipPathOf(clip_data) == NoName

\* The ViralClip row created for one clip_data entry (lines 207-217).  rank
\* is no column: it tells for which entry the row was created.
ClipRow(clip_data) ==
    [rank |-> clip_data.rank,
     virality_score |-> PersistedScore(clip_data.virality_score),
     clip_url |-> ClipPathOf(clip_data)]

\* The payload stored on a failed job after process_video returned
\* success=False (lines 238-248): the tag is the worker's own `step`.
FailurePayload(res, step) ==
    [kind |-> "error", error |-> res.error, step_failed |-> step]

\* The payload stored by the worker's except clause (lines 257-264).
ExceptionPayload(step) ==
    [kind |-> "error", error |-> [step |-> step, cause |-> "exception"],
     step_failed |-> step]

\* The payload stored on a completed job (lines 226-235).
SuccessPayload(res, saved) ==
    [kind |-> "stats", stats |-> res.processing_stats,
     video_info |-> res.video_info, clips_saved |-> saved]

\* result.get('success') is true: step "save_clips" (lines 198-203).
WHandleSuccess(j) ==
    /\ wpc[j] = "returned"
    /\ result[j].kind = "success"
    /\ wstep' = [wstep EXCEPT ![j] = "save_clips"]
    /\ saved_clips' = [saved_clips EXCEPT ![j] = 0]
    /\ save_i' = [save_i EXCEPT ![j] = 1]
    /\ wpc' = [wpc EXCEPT ![j] = "save_clips"]
    /\ DropFrame(j)
    /\ UNCHANGED <<db, clipRows, lastResp, mem, ppc, result>>
    /\ UNCHANGED <<fsVars, an>>

\* One iteration of the saving loop (lines 204-222): a create that raises is
\* logged and the loop goes on.
WSaveClip(j) ==
    /\ wpc[j] = "save_clips"
    /\ save_i[j] <= Len(result[j].clips)
    /\ \E created \in BOOLEAN :
        IF created
        THEN /\ clipRows' = Append1(clipRows, j, ClipRow(result[j].clips[save_i[j]]))
             /\ saved_clips' = [saved_clips EXCEPT ![j] = @ + 1]
        ELSE UNCHANGED <<clipRows, saved_clips>>
    /\ save_i' = [save_i EXCEPT ![j] = @ + 1]
    /\ UNCHANGED <<db, lastResp, mem, wpc, wstep, use_gcs>>
    /\ UNCHANGED <<runVars, fsVars, an>>

\* Variant of FinalSave: the row is written, and a statement after the save
\* raises, so the except clause runs on a job already written.
FinalSave_RaisesAfterSave(j, m, step) ==
    \E saveOk \in BOOLEAN :
        /\ db' = IF saveOk
                 THEN [db EXCEPT ![j].status = m.status,
                                 ![j].error_message = m.error_message]
                 ELSE db
        /\ mem' = [mem EXCEPT ![j] = m]
        /\ wpc' = [wpc EXCEPT ![j] = "except"]
        /\ wstep' = [wstep EXCEPT ![j] = step]
        /\ saved_clips' = [saved_clips EXCEPT ![j] = 0]
        /\ save_i' = [save_i EXCEPT ![j] = 0]
        /\ result' = [result EXCEPT ![j] = NoResult]

\* The final save() (line 250) of the in-memory object `m` at step `step`:
\* it writes the row and the thread ends, or it raises into the except clause.
FinalSave(j, m, step) ==
    \E saveOk \in BOOLEAN :
        IF saveOk
        THEN /\ db' = [db EXCEPT ![j].status = m.status,
                                 ![j].error_message = m.error_message]
             /\ mem' = [mem EXCEPT ![j] = [status |-> "none",
                                           error_message |-> [kind |-> "null"]]]
             /\ EndThread(j)
        ELSE /\ db' = db
             /\ mem' = [mem EXCEPT ![j] = m]
             /\ wpc' = [wpc EXCEPT ![j] = "except"]
             /\ wstep' = [wstep EXCEPT ![j] = step]
             /\ saved_clips' = [saved_clips EXCEPT ![j] = 0]
             /\ save_i' = [save_i EXCEPT ![j] = 0]
             /\ result' = [result EXCEPT ![j] = NoResult]

\* step "finalize_success" (lines 226-236, 250).
WFinalizeSuccess(j) ==
    /\ wpc[j] = "save_clips"
    /\ save_i[j] > Len(result[j].clips)
    /\ FinalSave(j, [status |-> "completed",
                     error_message |-> SuccessPayload(result[j], saved_clips[j])],
                 "finalize_success")
    /\ UNCHANGED <<clipRows, lastResp, use_gcs>>
    /\ UNCHANGED <<ppc, pstep, video_file_path, viral_moments, clip_i, clips_data, clip_files, calls>>
    /\ UNCHANGED <<fsVars, an>>

\* step "handle_failure" (lines 238-250).
WHandleFailure(j) ==
    /\ wpc[j] = "returned"
    /\ result[j].kind = "failure"
    /\ FinalSave(j, [status |-> "failed",
                     error_message |-> FailurePayload(result[j], "handle_failure")],
                 "handle_failure")
    /\ DropFrame(j)
    /\ UNCHANGED <<clipRows, lastResp, ppc>>
    /\ UNCHANGED <<fsVars, an>>

\* Variant of WExcept: the status is set to failed and the payload is left
\* as the try block had it.
WExcept_KeepsPayload(j) ==
    /\ wpc[j] = "except"
    /\ \E saveOk \in BOOLEAN :
        db' = IF saveOk
              THEN [db EXCEPT ![j].status = "failed",
                              ![j].error_message = mem[j].error_message]
              ELSE db
    /\ mem' = [mem EXCEPT ![j] = [status |-> "none",
                                  error_message |-> [kind |-> "null"]]]
    /\ EndThread(j)
    /\ UNCHANGED <<clipRows, lastResp, use_gcs>>
    /\ UNCHANGED <<ppc, pstep, video_file_path, viral_moments, clip_i, clips_data, clip_files, calls>>
    /\ UNCHANGED <<fsVars, an>>

\* The except clause (lines 253-268): status failed with the step at which
\* the exception was raised; a save that raises again is only logged.  The
\* thread ends.
WExcept(j) ==
    /\ wpc[j] = "except"
    /\ \E saveOk \in BOOLEAN :
        db' = IF saveOk
              THEN [db EXCEPT ![j].status = "failed",
                              ![j].error_message = ExceptionPayload(wstep[j])]
              ELSE db
    /\ mem' = [mem EXCEPT ![j] = [status |-> "none",
                                  error_message |-> [kind |-> "null"]]]
    /\ EndThread(j)
    /\ UNCHANGED <<clipRows, lastResp, use_gcs>>
    /\ UNCHANGED <<ppc, pstep, video_file_path, viral_moments, clip_i, clips_data, clip_files, calls>>
    /\ UNCHANGED <<fsVars, an>>

\* ------------------------------------------------------------ read views
\* The orders in which n rows can be listed, as sequences of row positions;
\* a row's position in clipRows[j] is its creation order (created_at).
Orders(n) ==
    {p \in [1..n -> 1..n] : \A a, b \in 1..n : a # b => p[a] # p[b]}

\* results (line 341): clips.all().order_by('-virality_score').  order_by
\* replaces the ordering of the model's Meta, so rows of equal score come in
\* whatever order the database yields them.
results_clips(j) ==
    {p \in Orders(Len(clipRows[j])) :
        \A a, b \in 1..Len(clipRows[j]) :
            a < b => clipRows[j][p[a]].virality_score >= clipRows[j][p[b]].virality_score}

\* processing_status (lines 308-335): error_message is passed on only for a
\* failed job; stats and video_info are read from the payload only for a
\* completed job, and are {} otherwise.
processing_status(j) ==
    LET completed == db[j].error_message.kind # "null" /\ db[j].status = "completed"
        has(k) == completed /\ k \in DOMAIN db[j].error_message
    IN [status |-> db[j].status,
        error_message |-> IF db[j].status = "failed"
                          THEN db[j].error_message ELSE [kind |-> "null"],
        total_clips |-> Len(clipRows[j]),
        processing_stats |-> IF has("stats")
                             THEN db[j].error_message.stats ELSE [kind |-> "empty"],
        video_info |-> IF has("video_info")
                       THEN db[j].error_message.video_info ELSE [kind |-> "empty"]]

\* ViralClip.Meta.ordering (models.py lines 33-34): score descending, then
\* created_at descending; the order of clips.all() without order_by.
default_ordering(j) ==
    {p \in results_clips(j) :
        \A a, b \in 1..Len(clipRows[j]) :
            (a < b /\ clipRows[j][p[a]].virality_score = clipRows[j][p[b]].virality_score)
                => p[a] > p[b]}

\* ------------------------------------------------------------------- Next
Worker(j) ==
    \/ WStatusUpdate(j)
    \/ WInitFails(j)
    \/ WStartProcessing(j)
    \/ WHandleSuccess(j)
    \/ WSaveClip(j)
    \/ WFinalizeSuccess(j)
    \/ WHandleFailure(j)
    \/ WExcept(j)

Pipeline(j) ==
    \/ PFfmpegCheck(j)
    \/ PTranscriptFetch(j)
    \/ PViralAnalysis(j)
    \/ PVideoDownload(j)
    \/ PCheckFile(j)
    \/ PClipSkipped(j)
    \/ PClip(j)
    \/ PAssemble(j)
    \/ PFinally(j)

Next ==
    \/ Submit
    \/ \E j \in JobIds : Worker(j)
    \/ \E j \in JobIds : Pipeline(j)

Spec == Init /\ [][Next]_vars

\* Every started thread keeps being scheduled (daemon threads of one
\* process, lines 270-275) and every external call returns or raises, so a
\* worker or pipeline step that stays possible is eventually taken.
SpecFair ==
    Spec /\ \A j \in JobIds : WF_vars(Worker(j)) /\ WF_vars(Pipeline(j))

\* ===================================================== GeminiAnalyzer
\* Variant of convert_score_to_grade: the rows for A and A- are tested in
\* the wrong order.
convert_score_to_grade_RowsSwapped(score) ==
    IF score >= 97 THEN "A+"
    ELSE IF score >= 90 THEN "A-"
    ELSE IF score >= 93 THEN "A"
    ELSE IF score >= 87 THEN "B+"
    ELSE IF score >= 83 THEN "B"
    ELSE IF score >= 80 THEN "B-"
    ELSE IF score >= 77 THEN "C+"
    ELSE IF score >= 73 THEN "C"
    ELSE IF score >= 70 THEN "C-"
    ELSE IF score >= 65 THEN "D+"
    ELSE IF score >= 60 THEN "D"
    ELSE "F"

\* convert_score_to_grade (lines 245-270), on hundredths.
convert_score_to_grade(score) ==
    IF score >= 97 THEN "A+"
    ELSE IF score >= 93 THEN "A"
    ELSE IF score >= 90 THEN "A-"
    ELSE IF score >= 87 THEN "B+"
    ELSE IF score >= 83 THEN "B"
    ELSE IF score >= 80 THEN "B-"
    ELSE IF score >= 77 THEN "C+"
    ELSE IF score >= 73 THEN "C"
    ELSE IF score >= 70 THEN "C-"
    ELSE IF score >= 65 THEN "D+"
    ELSE IF score >= 60 THEN "D"
    ELSE "F"

Max2(a, b) == IF a >= b THEN a ELSE b
Min2(a, b) == IF a <= b THEN a ELSE b

\* A raw moment is a dictionary: `keys` are the keys it has, `numeric` tells
\* whether float() accepts its start, end and score.
Get(moment, key, default) == IF key \in moment.keys THEN moment[key] ELSE default

\* The body of the validation loop for one moment (lines 212-232).
ValidateMoment(moment, total_duration) ==
    LET start_time == Max2(0, Min2(Get(moment, "start_timestamp", DefaultStart),
                                   total_duration - ValidationWindow))
        end_time == Min2(total_duration, start_time + ValidationWindow)
        score == Max2(0, Min2(100, Get(moment, "virality_score", DefaultScore)))
    IN [start_timestamp |-> start_time,
        end_timestamp |-> end_time,
        virality_score |-> score,
        grade |-> Get(moment, "grade", convert_score_to_grade(score))]

\* The loop (lines 210-238): a moment float() rejects is skipped.
RECURSIVE ValidateAll(_, _)
ValidateAll(moments, total_duration) ==
    IF moments = <<>> THEN <<>>
    ELSE LET rest == ValidateAll(Tail(moments), total_duration)
         IN IF Head(moments).numeric
            THEN <<ValidateMoment(Head(moments), total_duration)>> \o rest
            ELSE rest

\* list.sort(key=score, reverse=True) (line 241): stable, best score first.
RECURSIVE InsertByScore(_, _)
InsertByScore(m, sorted) ==
    IF sorted = <<>> THEN <<m>>
    ELSE IF Head(sorted).virality_score >= m.virality_score
         THEN <<Head(sorted)>> \o InsertByScore(m, Tail(sorted))
         ELSE <<m>> \o sorted

RECURSIVE SortByScore(_)
SortByScore(ms) ==
    IF ms = <<>> THEN <<>>
    ELSE InsertByScore(ms[Len(ms)], SortByScore(SubSeq(ms, 1, Len(ms) - 1)))

\* Variant of _validate_viral_moments: the list is cut to five before it is
\* sorted.
validate_viral_moments_CutThenSort(viral_moments_in, total_duration) ==
    LET validated == ValidateAll(viral_moments_in, total_duration)
    IN SortByScore(SubSeq(validated, 1, Min2(Len(validated), MaxReturned)))

\* _validate_viral_moments (lines 206-243).
validate_viral_moments(viral_moments_in, total_duration) ==
    LET validated == SortByScore(ValidateAll(viral_moments_in, total_duration))
    IN SubSeq(validated, 1, Min2(Len(validated), MaxReturned))

\* The start of the fallback clip at position i = 0, 1, 2: beginning, middle,
\* end (lines 283-288).
FallbackStart(i, total_duration, clip_duration) ==
    CASE i = 0 -> Max2(0, FallbackOffset)
      [] i = 1 -> Max2(0, (total_duration \div 2) - (clip_duration \div 2))
      [] i = 2 -> Max2(0, total_duration - clip_duration - FallbackOffset)

\* The dictionary appended for position i (lines 292-300).  Scores are in
\* hundredths; the float 0.7 - 2 * 0.1 is a hair below 0.5 and stands as 50.
FallbackMoment(i, total_duration, clip_duration) ==
    LET start_time == FallbackStart(i, total_duration, clip_duration)
    IN [keys |-> {"start_timestamp", "end_timestamp", "virality_score", "grade"},
        numeric |-> TRUE,
        start_timestamp |-> start_time,
        end_timestamp |-> Min2(total_duration, start_time + clip_duration),
        virality_score |-> FallbackTopScore - i * FallbackScoreStep,
        grade |-> "B"]

\* _create_fallback_moments (lines 272-304): no moment without transcript
\* segments; a position is kept only if its window is not empty.
create_fallback_moments(segments, total_duration, clip_duration) ==
    IF segments = 0 THEN <<>>
    ELSE SelectSeq([i \in 1..3 |-> FallbackMoment(i - 1, total_duration, clip_duration)],
                   LAMBDA m : m.end_timestamp > m.start_timestamp)

\* extract_viral_moments (lines 21-193), from the moments parsed out of the
\* model's answer: without transcript segments it raises (lines 33-35); with
\* no parsed moment the fallback is used (lines 167-170); the list is then
\* validated (line 174).
extract_viral_moments(parsed, segments, total_duration, clip_duration) ==
    IF segments = 0 THEN [kind |-> "raise", moments |-> <<>>]
    ELSE LET found == IF parsed = <<>>
                      THEN create_fallback_moments(segments, total_duration, clip_duration)
                      ELSE parsed
         IN [kind |-> "ok", moments |-> validate_viral_moments(found, total_duration)]

\* ------------------------------------------------------ analyzer harness
RawKeySets == {{"start_timestamp", "end_timestamp", "virality_score", "grade"},
               {"start_timestamp", "end_timestamp", "virality_score"},
               {"grade"}}

NumericMoments ==
    [keys : RawKeySets, numeric : {TRUE},
     start_timestamp : StartInputs, end_timestamp : {40},
     virality_score : ScoreInputs, grade : {"A"}]

\* A moment whose start is not a number: float() raises on it.
BadMoment ==
    [keys |-> {"start_timestamp"}, numeric |-> FALSE,
     start_timestamp |-> 0, end_timestamp |-> 40,
     virality_score |-> 0, grade |-> "A"]

RawMoments == NumericMoments \cup {BadMoment}

AnInputs ==
    [pc : {"input"}, op : {"validate"},
     moments : UNION {[1..n -> RawMoments] : n \in 0..MaxRawMoments},
     total_duration : TotalDurations,
     out : {<<>>}]

\* Moments as the parser hands them over: every key present.
ParsedMoments ==
    {m \in NumericMoments : m.keys = {"start_timestamp", "end_timestamp",
                                      "virality_score", "grade"}
                            /\ m.start_timestamp = 50} \cup {BadMoment}

\* Inputs of extract_viral_moments: nothing parsed, for every duration pair
\* and with or without transcript segments; or a long list parsed.
AnExtractInputs ==
    [pc : {"input"}, op : {"extract"}, parsed : {<<>>}, segments : {0, 1},
     total_duration : FallbackDurations, clip_duration : ClipDurations,
     out : {<<>>}]
    \cup
    [pc : {"input"}, op : {"extract"}, parsed : [1..MaxParsed -> ParsedMoments],
     segments : {1}, total_duration : {120}, clip_duration : {30},
     out : {<<>>}]

AnGradeInputs ==
    [pc : {"input"}, op : {"grade"}, score : GradeScores, out : {""}]

\* ------------------------------------- YouTubeDownloader.download_video
\* The format selectors in the order the code tries them: the first choice
\* (line 54), then fallback_formats (lines 144-149).
Formats == <<"best[height<=720]", "best[height<=480]", "worst[ext=mp4]",
             "best[ext=mp4]", "best">>

\* What one ydl.download can do: leave a file and return, raise with nothing
\* written, or raise with a file left at the output path.
DownloadOutcomes == {"file", "raise", "partial"}

\* The blob store: not configured, configured and working, or configured
\* with an upload that raises (lines 122-138, 187-201).
GcsModes == {"off", "ok", "upload_fails"}

\* The attempts from selector i on (lines 85-140 for the first, 151-205
\* for the others), then the removal of a partial file and the raise
\* (lines 207-216).  `atPath` tells whether a file is at the output path.
RECURSIVE TryFormats(_, _, _, _, _, _)
TryFormats(i, outcomes, gcs, remove_ok, attempts, atPath) ==
    IF i > Len(Formats)
    THEN [kind |-> "raise", attempts |-> attempts,
          atPath |-> atPath /\ ~remove_ok]
    ELSE IF outcomes[i] = "file"
         THEN IF gcs = "ok"
              THEN [kind |-> "gcs", attempts |-> Append(attempts, Formats[i]),
                    atPath |-> FALSE]
              ELSE [kind |-> "local", attempts |-> Append(attempts, Formats[i]),
                    atPath |-> TRUE]
         ELSE TryFormats(i + 1, outcomes, gcs, remove_ok,
                         Append(attempts, Formats[i]),
                         atPath \/ outcomes[i] = "partial")

\* download_video(youtube_url) (lines 30-216): the output path is built from
\* the title get_video_info returns (lines 41-47), outside the try block;
\* get_video_info raises when the metadata cannot be read (lines 234-258).
YouTubeDownloader_download_video(info_ok, outcomes, gcs, remove_ok) ==
    IF ~info_ok
    THEN [kind |-> "raise", attempts |-> <<>>, atPath |-> FALSE]
    ELSE TryFormats(1, outcomes, gcs, remove_ok, <<>>, FALSE)

AnDownloadInputs ==
    [pc : {"input"}, op : {"download"}, info_ok : BOOLEAN,
     outcomes : [1..Len(Formats) -> DownloadOutcomes], gcs : GcsModes,
     remove_ok : BOOLEAN, out : {<<>>}]

\* ------------------------------------------------------- views.results
\* The grade calculate_grade_distribution_from_clips derives for one row
\* (lines 389-413): score = virality_score / 100.0, then the chain of
\* thresholds.  The argument is the stored integer.
distribution_grade(virality_score) ==
    IF virality_score >= 97 THEN "A+"
    ELSE IF virality_score >= 93 THEN "A"
    ELSE IF virality_score >= 90 THEN "A-"
    ELSE IF virality_score >= 87 THEN "B+"
    ELSE IF virality_score >= 83 THEN "B"
    ELSE IF virality_score >= 80 THEN "B-"
    ELSE IF virality_score >= 77 THEN "C+"
    ELSE IF virality_score >= 73 THEN "C"
    ELSE IF virality_score >= 70 THEN "C-"
    ELSE IF virality_score >= 65 THEN "D+"
    ELSE IF virality_score >= 60 THEN "D"
    ELSE "F"

\* The grade clip_detail derives for its row (lines 424-449): the same
\* conversion and chain, written out a second time.
clip_detail_grade(virality_score) ==
    IF virality_score >= 97 THEN "A+"
    ELSE IF virality_score >= 93 THEN "A"
    ELSE IF virality_score >= 90 THEN "A-"
    ELSE IF virality_score >= 87 THEN "B+"
    ELSE IF virality_score >= 83 THEN "B"
    ELSE IF virality_score >= 80 THEN "B-"
    ELSE IF virality_score >= 77 THEN "C+"
    ELSE IF virality_score >= 73 THEN "C"
    ELSE IF virality_score >= 70 THEN "C-"
    ELSE IF virality_score >= 65 THEN "D+"
    ELSE IF virality_score >= 60 THEN "D"
    ELSE "F"

\* GrokAnalyzer.convert_score_to_grade (grok_analyzer.py lines 269-294), on
\* a score in hundredths.
GrokAnalyzer_convert_score_to_grade(score) ==
    IF score >= 97 THEN "A+"
    ELSE IF score >= 93 THEN "A"
    ELSE IF score >= 90 THEN "A-"
    ELSE IF score >= 87 THEN "B+"
    ELSE IF score >= 83 THEN "B"
    ELSE IF score >= 80 THEN "B-"
    ELSE IF score >= 77 THEN "C+"
    ELSE IF score >= 73 THEN "C"
    ELSE IF score >= 70 THEN "C-"
    ELSE IF score >= 65 THEN "D+"
    ELSE IF score >= 60 THEN "D"
    ELSE "F"

\* A float score is named by the hundredth h it sits at and by whether it is
\* that two-decimal value itself or the float just below it.  Against the
\* thresholds, which are two-decimal values, the float just below h/100
\* compares like (h - 1)/100.
ComparesLike(score) == IF score.below THEN score.h - 1 ELSE score.h

\* int(score * 100) (views.py line 214) on such a score.  The product of the
\* float just below h/100 with 100 is rounded to the nearest float, which
\* for the hundredths of RoundsUp is h itself; for the others it stays
\* below h and is truncated to h - 1.
RoundsUp == {5, 10, 17, 20, 23, 34, 40, 46, 67, 68, 80, 81, 92, 93}
PersistedFloat(score) ==
    IF score.below
    THEN IF score.h \in RoundsUp THEN score.h ELSE score.h - 1
    ELSE PersistedScore(score.h)

\* The grades the program derives for one score: by the two analyzers from
\* the float, by the two views from the stored integer.
Regrade(score) ==
    [gemini |-> convert_score_to_grade(ComparesLike(score)),
     grok |-> GrokAnalyzer_convert_score_to_grade(ComparesLike(score)),
     persisted |-> PersistedFloat(score),
     distribution |-> distribution_grade(PersistedFloat(score)),
     detail |-> clip_detail_grade(PersistedFloat(score))]

AnRegradeInputs ==
    {[pc |-> "input", op |-> "regrade", score |-> sc, out |-> <<>>] :
        sc \in {x \in [h : GradeScores, below : BOOLEAN] : x.below => x.h >= 1}}

\* The analytics of the results page (lines 356-365): top_clips counts the
\* rows with virality_score >= 80, and success_rate is
\* top_clips / total_clips * 100, kept here as a fraction.
results_analytics(rows) ==
    LET total_clips == Len(rows)
        top_clips == Len(SelectSeq(rows, LAMBDA v : v >= TopClipsThreshold))
    IN [total_clips |-> total_clips,
        top_clips |-> IF total_clips > 0 THEN top_clips ELSE 0,
        success_rate |-> IF total_clips > 0
                         THEN [num |-> top_clips * 100, den |-> total_clips]
                         ELSE [num |-> 0, den |-> 1]]

AnResultsInputs ==
    [pc : {"input"}, op : {"results"},
     rows : UNION {[1..n -> RowScores] : n \in 0..MaxRows},
     out : {<<>>}]

InitAnalyzer ==
    InitJobs /\ an \in AnInputs \cup AnExtractInputs \cup AnGradeInputs
                         \cup AnDownloadInputs \cup AnResultsInputs
                         \cup AnRegradeInputs

\* One call of extract_viral_moments on the drawn input.
AnExtract ==
    /\ an.pc = "input" /\ an.op = "extract"
    /\ an' = [an EXCEPT !.pc = "extracted",
                        !.out = extract_viral_moments(an.parsed, an.segments,
                                                      an.total_duration, an.clip_duration)]
    /\ UNCHANGED <<jobVars, runVars, fsVars>>

\* One call of convert_score_to_grade on the drawn score.
AnGrade ==
    /\ an.pc = "input" /\ an.op = "grade"
    /\ an' = [an EXCEPT !.pc = "graded", !.out = convert_score_to_grade(an.score)]
    /\ UNCHANGED <<jobVars, runVars, fsVars>>

\* One call of _validate_viral_moments on the drawn input.
AnValidate ==
    /\ an.pc = "input" /\ an.op = "validate"
    /\ an' = [an EXCEPT !.pc = "validated",
                        !.out = validate_viral_moments(an.moments, an.total_duration)]
    /\ UNCHANGED <<jobVars, runVars, fsVars>>

\* One call of download_video on the drawn outcomes.
AnDownload ==
    /\ an.pc = "input" /\ an.op = "download"
    /\ an' = [an EXCEPT !.pc = "downloaded",
                        !.out = YouTubeDownloader_download_video(
                                    an.info_ok, an.outcomes, an.gcs, an.remove_ok)]
    /\ UNCHANGED <<jobVars, runVars, fsVars>>

\* One rendering of the results page on the drawn rows.
AnResults ==
    /\ an.pc = "input" /\ an.op = "results"
    /\ an' = [an EXCEPT !.pc = "rendered", !.out = results_analytics(an.rows)]
    /\ UNCHANGED <<jobVars, runVars, fsVars>>

\* One score graded by the analyzers, persisted, and graded by the views.
AnRegrade ==
    /\ an.pc = "input" /\ an.op = "regrade"
    /\ an' = [an EXCEPT !.pc = "regraded", !.out = Regrade(an.score)]
    /\ UNCHANGED <<jobVars, runVars, fsVars>>

NextAnalyzer ==
    AnValidate \/ AnExtract \/ AnGrade \/ AnDownload \/ AnResults \/ AnRegrade

SpecAnalyzer == InitAnalyzer /\ [][NextAnalyzer]_vars

\* ================================================================ properties
Count(log, c) == Len(SelectSeq(log, LAMBDA x : x = c))

\* The calls of a run without the closing cleanup_file.
StageLog(j) == SelectSeq(calls[j], LAMBDA x : x # "cleanup_file")

StageCalls == <<"is_ffmpeg_available", "fetch_transcript",
                "extract_viral_moments", "download_video">>

\* status, status' is a link of the chain Pending -> Processing ->
\* Completed | Failed.
ChainLink(s, t) ==
    \/ s = "none" /\ t = "pending"
    \/ s = "pending" /\ t = "processing"
    \/ s = "processing" /\ t \in {"completed", "failed"}

\* C1, as the specification states it: the stored status of a job only moves
\* along Pending -> Processing -> Completed | Failed; in particular it never
\* goes from Pending straight to a terminal state.
C1_StatusFollowsChain ==
    [][\A j \in JobIds :
         db'[j].status # db[j].status => ChainLink(db[j].status, db'[j].status)]_vars

\* C1, amended: the stored status never goes backward and never leaves
\* Completed or Failed; each change is a link of the chain, or it is
\* Pending -> Failed, written by the except clause after the save of
\* "processing" itself raised.
C1_StatusMonotone ==
    [][\A j \in JobIds :
         db'[j].status # db[j].status =>
            \/ ChainLink(db[j].status, db'[j].status)
            \/ /\ db[j].status = "pending"
               /\ db'[j].status = "failed"
               /\ wstep[j] = "status_update"]_vars

\* A job stored as Failed by the except clause after the "processing" save
\* raised: it went from Pending to Failed.
C1_Witness ==
    \E j \in JobIds :
        /\ db[j].status = "failed"
        /\ db[j].error_message.step_failed = "status_update"

\* C2, as the specification states it: a run that has returned has called
\* cleanup_file exactly once, whatever happened in it.
C2_CleanupExactlyOnce ==
    \A j \in JobIds : wpc[j] = "returned" => Count(calls[j], "cleanup_file") = 1

\* C2, amended: the finally clause is the only place a run calls
\* cleanup_file, and it calls it once exactly when a path was assigned that
\* is a blob URL or a local file still present; a run that failed before the
\* download returned a path calls it zero times.
C2_CleanupOnceIfAcquired ==
    [][\A j \in JobIds :
         LET before == Count(calls[j], "cleanup_file")
             after == Count(calls'[j], "cleanup_file")
             held == /\ video_file_path[j] # NoPath
                     /\ \/ video_file_path[j].kind = "gcs"
                        \/ srcFile[video_file_path[j].url]
         IN /\ after > before => ppc[j] = "finally" /\ before = 0
            /\ (ppc[j] = "finally" /\ ppc'[j] = "idle") =>
                  after = (IF held THEN 1 ELSE 0)]_vars

\* A run that failed after the download returned a path, and cleaned up once.
C2_Witness ==
    \E j \in JobIds :
        /\ wpc[j] = "returned"
        /\ result[j].kind = "failure"
        /\ video_file_path[j] # NoPath
        /\ Count(calls[j], "cleanup_file") = 1

\* C3: a run that has returned and had been given a path by download_video
\* has called cleanup_file on it exactly once, as its last call, after every
\* clip extraction.
C3_SourceReleasedOnce ==
    \A j \in JobIds :
        (wpc[j] = "returned" /\ video_file_path[j] # NoPath) =>
            /\ Count(calls[j], "cleanup_file") = 1
            /\ calls[j][Len(calls[j])] = "cleanup_file"

\* C4: a run that failed because the encoder is not available has made no
\* transcript, analysis or download call: the probe is its only call.
C4_NoCallAfterFfmpegMissing ==
    \A j \in JobIds :
        (result[j].kind = "failure" /\ result[j].error.cause = "FFmpeg is not installed")
            => calls[j] = <<"is_ffmpeg_available">>

\* A run that has returned with the encoder reported missing.
C4_Witness ==
    \E j \in JobIds :
        /\ wpc[j] = "returned"
        /\ result[j].kind = "failure"
        /\ result[j].error.cause = "FFmpeg is not installed"

\* C5: the calls of a run are, in this order, the encoder probe, the
\* transcript fetch, the analysis, the download, then clip extractions only;
\* an extraction is called only with a path returned by the download, and
\* cleanup_file only comes last.
C5_StagesInOrder ==
    \A j \in JobIds :
        /\ \A i \in 1..Len(StageLog(j)) :
              StageLog(j)[i] = (IF i <= Len(StageCalls) THEN StageCalls[i] ELSE "create_clip")
        /\ Count(calls[j], "create_clip") > 0 => video_file_path[j] # NoPath
        /\ \A i \in 1..Len(calls[j]) : calls[j][i] = "cleanup_file" => i = Len(calls[j])

\* A run that went through every stage, extracted a clip and cleaned up.
C5_Witness ==
    \E j \in JobIds :
        calls[j] = StageCalls \o <<"create_clip", "cleanup_file">>

\* C6: a candidate whose extraction failed contributes no clip: a run in
\* which k >= 1 extractions succeeded returns success with exactly k clips.
C6_FailedExtractionContributesNoClip ==
    \A j \in JobIds :
        (wpc[j] = "returned" /\ Len(clip_files[j]) >= 1) =>
            /\ result[j].kind = "success"
            /\ result[j].total_clips = Len(clip_files[j])

\* C7: a run that reached the clip loop and in which no extraction produced
\* a file returns a failure of the clip creation stage, so that the job is
\* stored as Failed and no clip row is written for it.
C7_AllExtractionsFailIsFailure ==
    \A j \in JobIds :
        (wpc[j] = "returned" /\ pstep[j] = "clip_creation" /\ clip_files[j] = <<>>) =>
            /\ result[j].kind = "failure"
            /\ result[j].step_failed = "clip_creation"

\* C8: the payload stored on a Failed job is tagged with the stage at which
\* the recorded error occurred.
C8_PayloadNamesFailingStage ==
    \A j \in JobIds :
        db[j].status = "failed" =>
            db[j].error_message.step_failed = db[j].error_message.error.step

\* The stage in which each failure of the first four stages arises.
StageOfCause ==
    [c \in {"FFmpeg is not installed"} |-> 1] @@
    [c \in {"Transcript fetch failed", "Empty transcript data received",
            "No transcript segments found"} |-> 2] @@
    [c \in {"Gemini AI analysis failed",
            "No viral moments found after analysis"} |-> 3] @@
    [c \in {"Video download failed", "Downloaded video file not found"} |-> 4]

StageNames == <<"ffmpeg_check", "transcript_fetch", "viral_analysis", "video_download">>

\* C9: a run in which one of the first four stages failed returns a failure
\* whose step_failed is that stage, having called the stages up to that one
\* once each and no later stage; and no run calls a stage twice.
C9_StageFailureIsFatal ==
    \A j \in JobIds :
        /\ \A i \in 1..Len(StageCalls) : Count(calls[j], StageCalls[i]) <= 1
        /\ (result[j].kind = "failure" /\ result[j].error.cause \in DOMAIN StageOfCause) =>
              LET k == StageOfCause[result[j].error.cause]
              IN /\ result[j].step_failed = StageNames[k]
                 /\ StageLog(j) = SubSeq(StageCalls, 1, k)

\* A run that has returned after the analysis found no moment.
C9_Witness ==
    \E j \in JobIds :
        /\ wpc[j] = "returned"
        /\ result[j].kind = "failure"
        /\ result[j].error.cause = "No viral moments found after analysis"

\* C10: every moment _validate_viral_moments returns has
\* 0 <= start < end <= total duration and a score between 0 and 1.
C10_ValidatedWithinBounds ==
    an.pc = "validated" =>
        \A i \in 1..Len(an.out) :
            /\ 0 <= an.out[i].start_timestamp
            /\ an.out[i].start_timestamp < an.out[i].end_timestamp
            /\ an.out[i].end_timestamp <= an.total_duration
            /\ 0 <= an.out[i].virality_score
            /\ an.out[i].virality_score <= 100

\* The harness has called extract_viral_moments on a transcript with
\* segments and an answer from which no moment was parsed.
FallbackCase ==
    /\ an.pc = "extracted"
    /\ an.parsed = <<>>
    /\ an.segments > 0

\* C11: with a non-empty transcript and nothing parsed from the model's
\* answer, extract_viral_moments returns exactly three moments, whatever the
\* video duration and the target clip duration.
C11_ThreeFallbackMoments ==
    FallbackCase => an.out.kind = "ok" /\ Len(an.out.moments) = 3

\* C12: on a video long enough for the three windows (D >= d + 20), the
\* fallback moments extract_viral_moments returns start at 10, D/2 - d/2 and
\* D - d - 10, last d seconds each, and carry the scores 0.7, 0.6, 0.5 and
\* the grade B.
C12_FallbackPositions ==
    (FallbackCase /\ an.total_duration >= an.clip_duration + 20) =>
        LET D == an.total_duration
            d == an.clip_duration
            starts == <<10, (D \div 2) - (d \div 2), D - d - 10>>
            scores == <<70, 60, 50>>
        IN /\ Len(an.out.moments) = 3
           /\ \A i \in 1..3 :
                /\ an.out.moments[i].start_timestamp = starts[i]
                /\ an.out.moments[i].end_timestamp = starts[i] + d
                /\ an.out.moments[i].virality_score = scores[i]
                /\ an.out.moments[i].grade = "B"

\* The rows of the grade table: a score of at least the threshold gets the
\* grade, the first row that matches wins, and no row means F.
GradeTable ==
    << <<97, "A+">>, <<93, "A">>, <<90, "A-">>, <<87, "B+">>, <<83, "B">>,
       <<80, "B-">>, <<77, "C+">>, <<73, "C">>, <<70, "C-">>, <<65, "D+">>,
       <<60, "D">> >>

TableGrade(s) ==
    LET rows == {i \in 1..Len(GradeTable) : s >= GradeTable[i][1]}
    IN IF rows = {} THEN "F"
       ELSE GradeTable[CHOOSE i \in rows : \A k \in rows : i <= k][2]

\* Position of a grade in the table, 1 for A+ and 12 for F.
GradeRank(g) ==
    IF g = "F" THEN Len(GradeTable) + 1
    ELSE CHOOSE i \in 1..Len(GradeTable) : GradeTable[i][2] = g

\* C13: convert_score_to_grade(s) is the grade of the first matching row of
\* the table, and no lower score gets a better grade.
C13_GradeMatchesTable ==
    an.pc = "graded" =>
        /\ an.out = TableGrade(an.score)
        /\ \A t \in GradeScores :
              t <= an.score => GradeRank(convert_score_to_grade(t)) >= GradeRank(an.out)

\* The score 0.93, the lowest A, has been graded.
C13_Witness ==
    an.pc = "graded" /\ an.score = 93 /\ an.out = "A"

\* Number of moments of a list that score at least v.
AtLeast(ms, v) == Len(SelectSeq(ms, LAMBDA m : m.virality_score >= v))

\* C14: the list extract_viral_moments returns is sorted by score, best
\* first, holds at most five moments, and holds the best-scoring ones: for
\* every score v it has as many moments scoring at least v as were
\* validated, up to five.
C14_SortedTopFive ==
    (an.pc = "extracted" /\ an.out.kind = "ok") =>
        LET out == an.out.moments
            validated == ValidateAll(an.parsed, an.total_duration)
        IN /\ Len(out) <= 5
           /\ \A i \in 1..(Len(out) - 1) :
                 out[i].virality_score >= out[i + 1].virality_score
           /\ an.parsed # <<>> =>
                 \A v \in GradeScores :
                    AtLeast(out, v) = Min2(5, AtLeast(validated, v))

\* More than five moments validated, best ones late in the list, and five
\* were returned.
C14_Witness ==
    /\ an.pc = "extracted"
    /\ an.parsed # <<>>
    /\ Len(ValidateAll(an.parsed, an.total_duration)) > 5
    /\ an.parsed[1].virality_score < an.parsed[Len(an.parsed)].virality_score
    /\ Len(an.out.moments) = 5

\* C15: the clips of a job are listed by score, best first, and clips of
\* equal score in the order they were created.
C15_TiesInCreationOrder ==
    \A j \in JobIds :
        \A p \in results_clips(j) \cup default_ordering(j) :
            \A a, b \in 1..Len(clipRows[j]) :
                a < b =>
                    /\ clipRows[j][p[a]].virality_score >= clipRows[j][p[b]].virality_score
                    /\ clipRows[j][p[a]].virality_score = clipRows[j][p[b]].virality_score
                          => p[a] < p[b]

\* C16: a submission answered 400 is answered success=false, creates no job
\* record and starts no worker; every job record has a clip_duration within
\* [5, 60] and a url, and neither changes once the record exists.
C16_InvalidSubmissionRejected ==
    [][/\ \A j \in JobIds :
            /\ db'[j].exists =>
                  /\ db'[j].clip_duration >= 5
                  /\ db'[j].clip_duration <= 60
                  /\ db'[j].youtube_url # ""
            /\ db[j].exists =>
                  /\ db'[j].exists
                  /\ db'[j].clip_duration = db[j].clip_duration
                  /\ db'[j].youtube_url = db[j].youtube_url
       /\ (lastResp'.status = 400 /\ lastResp' # lastResp) =>
            /\ ~lastResp'.success
            /\ db' = db
            /\ wpc' = wpc]_vars

\* A submission was answered 400 while a job accepted earlier exists.
C16_Witness ==
    /\ lastResp.status = 400
    /\ \E j \in JobIds : db[j].exists

\* C17: the finally clause of process_video, with the cleanup it calls,
\* leaves every rendered clip as it is, whether the run succeeded or failed.
C17_ClipsRetained ==
    [][\A j \in JobIds :
          (ppc[j] = "finally" /\ ppc'[j] = "idle") => clipStore' = clipStore]_vars

\* A run has rendered a clip, cleaned up the source and returned.
C17_Witness ==
    \E j \in JobIds :
        /\ wpc[j] = "returned"
        /\ Count(calls[j], "cleanup_file") = 1
        /\ \E n \in ClipNames : clipStore[n] = j

\* C18: the grade of every moment extract_viral_moments returns, which
\* process_video copies to the clip and counts in its statistics, is the
\* grade the table gives for the moment's score.
C18_GradeDerivedFromScore ==
    (an.pc = "extracted" /\ an.out.kind = "ok") =>
        \A i \in 1..Len(an.out.moments) :
            an.out.moments[i].grade
                = convert_score_to_grade(an.out.moments[i].virality_score)

\* C19: while the worker saves the clips of a result, every row saved for a
\* clip whose extraction returned an output location stores that location
\* as its clip_url.
C19_ClipUrlIsOutputPath ==
    \A j \in JobIds :
        wpc[j] = "save_clips" =>
            \A r \in 1..Len(clipRows[j]), c \in 1..Len(result[j].clips) :
                (result[j].clips[c].rank = clipRows[j][r].rank
                    /\ result[j].clips[c].output_path # NoName)
                  => clipRows[j][r].clip_url = result[j].clips[c].output_path

\* C20: the payload stored on a job goes with its status: statistics and
\* video info and no error on a Completed job, an error and a failing step
\* and no statistics on a Failed job, nothing on any other; and the status
\* endpoint shows an error only for a Failed job and statistics only for a
\* Completed one.
C20_PayloadMatchesStatus ==
    \A j \in JobIds :
        db[j].exists =>
            LET payload == db[j].error_message
                shown == processing_status(j)
            IN /\ db[j].status = "completed" =>
                    /\ payload.kind = "stats"
                    /\ {"stats", "video_info"} \subseteq DOMAIN payload
                    /\ "error" \notin DOMAIN payload
               /\ db[j].status = "failed" =>
                    /\ payload.kind = "error"
                    /\ {"error", "step_failed"} \subseteq DOMAIN payload
                    /\ "stats" \notin DOMAIN payload
               /\ db[j].status \in {"pending", "processing"} => payload.kind = "null"
               /\ shown.error_message.kind # "null" => db[j].status = "failed"
               /\ shown.processing_stats # [kind |-> "empty"] => db[j].status = "completed"

\* A job stored as Failed by the except clause after the save of the
\* Completed status and its statistics had raised.
C20_Witness ==
    \E j \in JobIds :
        /\ db[j].status = "failed"
        /\ db[j].error_message.step_failed = "finalize_success"

\* C21: a job stored as Completed has one persisted clip row for every clip
\* of the pipeline result, and at least one.
C21_CompletedHasEveryClip ==
    \A j \in JobIds :
        db[j].status = "completed" =>
            /\ Len(clipRows[j]) >= 1
            /\ Len(clipRows[j]) = db[j].error_message.stats.clips_created

\* C22: the row and the clip rows of a job change only in a step of the
\* worker started for that job, which moves no other worker and changes no
\* other job; and a worker is started only for a row created in the same
\* step, so no job ever has two workers.
C22_OnlyOwnWorkerWrites ==
    [][\A j \in JobIds :
        /\ (db[j].exists /\ (db'[j] # db[j] \/ clipRows'[j] # clipRows[j])) =>
              /\ wpc[j] \notin {"none", "done"}
              /\ wpc'[j] # wpc[j] \/ save_i'[j] # save_i[j]
              /\ \A k \in JobIds \ {j} :
                    /\ wpc'[k] = wpc[k]
                    /\ save_i'[k] = save_i[k]
                    /\ db'[k] = db[k]
                    /\ clipRows'[k] = clipRows[k]
        /\ (wpc'[j] = "start" /\ wpc[j] # "start") =>
              /\ wpc[j] = "none"
              /\ ~db[j].exists
              /\ db'[j].exists]_vars

\* Two workers at work at once, one saving clip rows and the other with its
\* status written and its pipeline running.
C22_Witness ==
    \E j, k \in JobIds :
        /\ j # k
        /\ wpc[j] = "save_clips"
        /\ clipRows[j] # <<>>
        /\ wpc[k] = "run"
        /\ db[k].status = "processing"

\* C23: every accepted job eventually has a terminal status, Completed or
\* Failed, in the store the status endpoint reads.
C23_EveryJobTerminates ==
    \A j \in JobIds :
        db[j].exists ~> (db[j].status \in {"completed", "failed"})

\* C24: a download_video call that fails has attempted the first-choice
\* selector and the four fallback selectors, in that order, and leaves no
\* file at the output path; a call that returns has stopped at the first
\* attempt that yielded a file.
C24_FailsOnlyAfterEveryFormat ==
    an.pc = "downloaded" =>
        /\ an.out.kind = "raise" =>
              /\ an.out.attempts = Formats
              /\ ~an.out.atPath
        /\ an.out.kind # "raise" =>
              LET n == Len(an.out.attempts)
              IN /\ an.out.attempts = SubSeq(Formats, 1, n)
                 /\ an.outcomes[n] = "file"
                 /\ \A i \in 1..(n - 1) : an.outcomes[i] # "file"

\* C25: the success rate of the results page is the fraction of the job's
\* rows whose score-derived grade is A+, A or A-.
C25_SuccessRateCountsAGrades ==
    (an.pc = "rendered" /\ an.rows # <<>>) =>
        LET a_grades == SelectSeq(an.rows,
                          LAMBDA v : distribution_grade(v) \in {"A+", "A", "A-"})
        IN an.out.success_rate.num * Len(an.rows)
             = 100 * Len(a_grades) * an.out.success_rate.den

\* The source media of job j, where its path points, is there.
SourceExists(j) ==
    IF video_file_path[j].kind = "local"
    THEN srcFile[video_file_path[j].url]
    ELSE srcBlob[video_file_path[j].url]

\* Job j has its path from download_video and an extraction still to make.
BeforeLastExtraction(j) ==
    /\ video_file_path[j] # NoPath
    /\ \/ ppc[j] = "check_file"
       \/ ppc[j] = "clip_creation" /\ clip_i[j] <= Len(viral_moments[j])

\* C26: the finally clause of one job never removes the source media of
\* another job that is between its download and its last clip extraction.
C26_CleanupSparesRunningJobs ==
    [][\A j, k \in JobIds :
        (/\ j # k
         /\ ppc[k] = "finally" /\ ppc'[k] = "idle"
         /\ BeforeLastExtraction(j)
         /\ SourceExists(j))
          => SourceExists(j)']_vars

\* C27: a rendered clip, once written under an output name, is never
\* written again by another job.
C27_ClipNamesNotReused ==
    [][\A n \in ClipNames :
        clipStore[n] # 0 => clipStore'[n] = clipStore[n]]_vars

\* C28: a job whose stored status is Failed has no persisted clip rows.
C28_FailedJobHasNoClips ==
    \A j \in JobIds :
        db[j].status = "failed" => clipRows[j] = <<>>

\* C29: the two analyzers give one grade to a score, the two views give
\* one grade to its stored integer, and the grade of the stored integer is
\* the grade of the original score.
C29_GradesAgree ==
    an.pc = "regraded" =>
        /\ an.out.gemini = an.out.grok
        /\ an.out.distribution = an.out.detail
        /\ an.out.detail = an.out.gemini

\* C30: a create_clip call on a blob URL, made when no local copy of the
\* input is there, leaves no local copy behind when it returns.
C30_TempInputRemoved ==
    [][\A j \in JobIds :
        (/\ Count(calls'[j], "create_clip") > Count(calls[j], "create_clip")
         /\ video_file_path[j].kind = "gcs"
         /\ ~srcFile[video_file_path[j].url])
          => ~srcFile'[video_file_path[j].url]]_vars

====
